---- MODULE Spec2Model ----
(***************************************************************************)
(* Model of the OpenAlex -> Firehose producer (ingestion/producer.py,      *)
(* ingestion/openalex_client.py, ingestion/config.py).                     *)
(*                                                                         *)
(* One run of main() is a single thread of control that pulls the lazy     *)
(* works_stream generator.  The model splits the run at the points where   *)
(* the outside world answers: every HTTP response and every sink response  *)
(* is a nondeterministic input.                                            *)
(***************************************************************************)
EXTENDS Integers, Sequences, FiniteSets, TLC

(* ---------------------------- bounds ----------------------------------- *)
MaxPages == 2        \* longest upstream cursor chain
MaxRecords == 3      \* most records in the upstream collection
Max429 == 1          \* most 429 responses in one run
MaxFailed == 1       \* largest FailedPutCount a sink response reports
MaxRequests == MaxPages + Max429 + 2   \* cap on the request log

(* ------------------------ Python values -------------------------------- *)
None == "None"       \* Python None / JSON null, where a string is expected
Absent == "absent"   \* key missing from a dict, where a string is expected

\* optional integers: an int, Python None / JSON null, or a missing key
Num(n) == [kind |-> "int", v |-> n]
NoneInt == [kind |-> "None", v |-> 0]
AbsentInt == [kind |-> "absent", v |-> 0]

\* cursor tokens the upstream hands out, page i carries Tokens[i]
Tokens == <<"abc", "def", "ghi", "jkl", "mno", "pqr">>

\* ways the last page of a chain says "no more pages"
Terminators == {None, Absent, ""}

\* Python truthiness of a string-or-None value and of an optional integer
TruthyStr(s) == s \notin {None, Absent, ""}
TruthyInt(x) == x.kind = "int" /\ x.v # 0

RECURSIVE SumSeq(_)
SumSeq(s) == IF s = <<>> THEN 0 ELSE Head(s) + SumSeq(Tail(s))

RECURSIVE Concat(_)
Concat(ss) == IF ss = <<>> THEN <<>> ELSE Head(ss) \o Concat(Tail(ss))

(* ------------------------ upstream collection -------------------------- *)
\* ids of the records of page i when the pages hold sizes[1..k] records
PageItems(sizes, i) ==
    LET before == SumSeq(SubSeq(sizes, 1, i - 1))
    IN  [j \in 1..sizes[i] |-> before + j]

\* a finite chain of pages: page i points to page i+1, the last one ends
MkChain(sizes, term) ==
    [i \in 1..Len(sizes) |->
        [results |-> PageItems(sizes, i),
         next_cursor |-> IF i < Len(sizes) THEN Tokens[i] ELSE term]]

\* the ways to spread at most MaxRecords records over at most MaxPages pages
PageSizes ==
    {sizes \in UNION {[1..k -> 0..MaxRecords] : k \in 1..MaxPages} :
        SumSeq(sizes) <= MaxRecords}

Chains == {MkChain(sizes, term) : sizes \in PageSizes, term \in Terminators}

\* the chain with record k malformed: a declared field has a type that
\* OpenAlexWork rejects (written as the id negated)
Spoil(ch, k) ==
    [i \in DOMAIN ch |->
        [ch[i] EXCEPT !.results =
            [j \in DOMAIN @ |-> IF @[j] = k THEN 0 - k ELSE @[j]]]]

SpoiledChains ==
    UNION {{Spoil(MkChain(sizes, None), k) : k \in 1..SumSeq(sizes)} :
              sizes \in PageSizes}

\* the chain has a last page
Finite(ch) == ~TruthyStr(ch[Len(ch)].next_cursor)

\* index of the page the upstream serves for a cursor ("*" is the first)
\* (an unknown cursor maps to 0, which is no page)
PageIndex(c) ==
    IF c = "*" THEN 1
    ELSE IF \E i \in 1..Len(Tokens) : Tokens[i] = c
         THEN 1 + (CHOOSE i \in 1..Len(Tokens) : Tokens[i] = c)
         ELSE 0

(* ------------------------ configuration -------------------------------- *)
DefaultSleepSeconds == 2                        \* PRODUCER_SLEEP_SECONDS

\* <<--batch-size, PRODUCER_BATCH_SIZE, --batch-sleep>>
CliInputs ==
    {<<NoneInt, 2, NoneInt>>, <<NoneInt, 0, NoneInt>>, <<Num(0), 2, Num(0)>>,
     <<Num(1), 2, Num(1)>>, <<Num(3), 0, NoneInt>>, <<Num(500), 2, Num(0)>>,
     <<Num(501), 2, NoneInt>>}

\* <<--batch-size, PRODUCER_BATCH_SIZE>>
BatchSizeInputs == {<<in[1], in[2]>> : in \in CliInputs}
ArgMaxPages == {NoneInt, Num(0), Num(1), Num(2)}   \* --max-pages
ErrorStatuses == {404, 500}                     \* unsuccessful, not 429
\* Retry-After header: missing, delay-seconds, or an HTTP-date
HttpDate == "Wed, 21 Oct 2015 07:28:00 GMT"
RetryAfters == {Absent, "7", HttpDate}
FailedPutCounts == {NoneInt, AbsentInt} \cup {Num(n) : n \in 0..MaxFailed}

\* "if len(examples) >= 3: break"
MaxExamples == 3

\* RequestResponses entries that carry an ErrorCode or an ErrorMessage in an
\* answer of the sink to main: one more than a flush prints, whatever the
\* FailedPutCount beside them
ErrorEntries == MaxExamples + 1

VARIABLES
    pc,            \* position of the run
    err,           \* kind of the exception that ended the run
    cfg,           \* Settings()
    batch_size,    \* main(batch_size=...)
    batch_sleep,   \* main(batch_sleep=...)
    max_pages,     \* main(max_pages=...)
    dry_run,       \* main(dry_run=...)
    chain,         \* the upstream collection
    eff_batch_size,
    eff_batch_sleep,
    cursor,        \* params["cursor"]
    page_count,
    payload,       \* resp.json() of the page being yielded
    pending,       \* items of that page not yet yielded
    batch,
    total_sent,
    total_failed,
    next_uuid,     \* uuid4 counter
    requests,      \* log: every session.get, with the status it got
    yielded,       \* log: raw records yielded by works_stream
    sinkCalls,     \* log: argument of every sink.put_records call
    wouldSend,     \* log: the dry-run "would send N records" lines
    lastResp,      \* FailedPutCount of the latest sink response
    reportedSum,   \* sum of the numeric FailedPutCount values reported
    withinBatch,   \* no response so far reported more failures than records
    examples,      \* number of example failure lines printed so far
    slept,         \* argument of the latest sleep() call
    summary,       \* the summary table has been printed
    u_op,          \* the function called directly, "none" in a run of main
    u_in,          \* its arguments
    u_out          \* what it returned, raised and did

vars == <<pc, err, cfg, batch_size, batch_sleep, max_pages, dry_run, chain,
          eff_batch_size, eff_batch_sleep, u_op, u_in, u_out, cursor,
          page_count, payload, pending, batch,
          total_sent, total_failed, next_uuid, requests, yielded,
          sinkCalls, wouldSend, lastResp, reportedSum, withinBatch, slept,
          summary, examples>>

unit == <<u_op, u_in, u_out>>
config == <<cfg, batch_size, batch_sleep, max_pages, dry_run, chain, unit>>
effective == <<eff_batch_size, eff_batch_sleep>>
fetcher == <<cursor, page_count, payload, pending, requests, yielded, slept>>
counters == <<total_sent, total_failed, lastResp, reportedSum, withinBatch,
              examples>>
outputs == <<sinkCalls, wouldSend>>

NoPayload == [results |-> <<>>, next_cursor |-> Absent]

\* the start of main, the upstream collection being one of chains
InitWith(chains) ==
    /\ pc = "start"
    /\ err = "none"
    /\ cfg \in [openalex_email : {"", "me@example.com"},
                aws_region : {"", "us-east-1"},
                firehose_name : {"", "stream"},
                batch_size : {in[2] : in \in BatchSizeInputs},
                sleep_seconds : {DefaultSleepSeconds}]
    /\ batch_size \in {in[1] : in \in BatchSizeInputs}
    /\ <<batch_size, cfg.batch_size>> \in BatchSizeInputs
    /\ batch_sleep \in {in[3] : in \in CliInputs}
    /\ <<batch_size, cfg.batch_size, batch_sleep>> \in CliInputs
    /\ u_op = "none"
    /\ u_in = <<>>
    /\ u_out = <<>>
    /\ max_pages \in ArgMaxPages
    /\ dry_run \in BOOLEAN
    /\ chain \in chains
    /\ eff_batch_size = 0
    /\ eff_batch_sleep = 0
    /\ cursor = "*"
    /\ page_count = 0
    /\ payload = NoPayload
    /\ pending = <<>>
    /\ batch = <<>>
    /\ total_sent = 0
    /\ total_failed = 0
    /\ next_uuid = 1
    /\ requests = <<>>
    /\ yielded = <<>>
    /\ sinkCalls = <<>>
    /\ wouldSend = <<>>
    /\ lastResp = AbsentInt
    /\ reportedSum = 0
    /\ withinBatch = TRUE
    /\ examples = 0
    /\ slept = 0
    /\ summary = FALSE

Init == InitWith(Chains \cup SpoiledChains)

(* ------------------------ Settings.validate ---------------------------- *)
validate(c) ==
    /\ TruthyStr(c.openalex_email)
    /\ TruthyStr(c.aws_region)
    /\ TruthyStr(c.firehose_name)

\* eff_batch_size = batch_size or cfg.batch_size
EffBatchSize(arg, c) == IF TruthyInt(arg) THEN arg.v ELSE c.batch_size

\* eff_batch_sleep = batch_sleep if batch_sleep is not None
\*                   else cfg.sleep_seconds
EffBatchSleep(arg, c) == IF arg # NoneInt THEN arg.v ELSE c.sleep_seconds

BadBatchSize(eff) == eff <= 0 \/ eff > 500

\* main, up to the construction of the client and the sink
StartOk ==
    /\ pc = "start"
    /\ validate(cfg)
    /\ ~BadBatchSize(EffBatchSize(batch_size, cfg))
    /\ eff_batch_size' = EffBatchSize(batch_size, cfg)
    /\ eff_batch_sleep' = EffBatchSleep(batch_sleep, cfg)
    /\ pc' = "request"
    /\ UNCHANGED <<err, config, fetcher, batch, counters, next_uuid,
                   outputs, summary>>

StartConfigError ==
    /\ pc = "start"
    /\ ~validate(cfg)
    /\ pc' = "error"
    /\ err' = "config"
    /\ UNCHANGED <<config, effective, fetcher, batch, counters,
                   next_uuid, outputs, summary>>

StartBadParameter ==
    /\ pc = "start"
    /\ validate(cfg)
    /\ BadBatchSize(EffBatchSize(batch_size, cfg))
    /\ eff_batch_size' = EffBatchSize(batch_size, cfg)
    /\ eff_batch_sleep' = EffBatchSleep(batch_sleep, cfg)
    /\ pc' = "error"
    /\ err' = "badparam"
    /\ UNCHANGED <<config, fetcher, batch, counters, next_uuid, outputs,
                   summary>>

(* ------------------------ OpenAlexClient.works_stream ------------------ *)
\* the page the upstream serves for a cursor
ServePage(c) ==
    IF PageIndex(c) \in DOMAIN chain THEN chain[PageIndex(c)] ELSE NoPayload

Count429(log) == Cardinality({i \in DOMAIN log : log[i].status = 429})

\* int(s) raises ValueError unless s is an integer literal
IntRaises(s) == s \notin {"2", "7"}

\* resp.headers.get("Retry-After", "2")
RetryAfterHeader(h) == IF h = Absent THEN "2" ELSE h

\* int(resp.headers.get("Retry-After", "2"))
RetryAfter(h) == IF RetryAfterHeader(h) = "2" THEN 2 ELSE 7

\* a 429 branch that counts the response as a page
Retry429CountsPage(c, n) == <<c, n + 1>>

\* the "continue" of the 429 branch: params and page_count as they were
Retry429(c, n) == <<c, n>>

\* a status check that lets client errors through
RaisesForServerErrorOnly(status) == status >= 500

\* resp.raise_for_status()
RaisesForStatus(status) == status >= 400

\* an end test that misses the empty cursor
EndOfCursorNoneOnly(next_cursor) == next_cursor \in {None, Absent}

\* "if not next_cursor: break"
EndOfCursor(next_cursor) == ~TruthyStr(next_cursor)

\* a cap test that is off by one
CapReachedLate(mp, n) == TruthyInt(mp) /\ n > mp.v

\* a cap test that takes 0 for a cap
CapReachedAtZero(mp, n) == mp.kind = "int" /\ n >= mp.v

\* "if max_pages and page_count >= max_pages: break"
CapReached(mp, n) == TruthyInt(mp) /\ n >= mp.v

\* session.get answered 429: sleep, then the same request again; a
\* Retry-After that int() does not take raises ValueError out of the
\* generator
Get429 ==
    /\ pc = "request"
    /\ Len(requests) < MaxRequests
    /\ Count429(requests) < Max429
    /\ \E h \in RetryAfters :
          /\ requests' = Append(requests, [cursor |-> cursor, status |-> 429])
          /\ IF IntRaises(RetryAfterHeader(h))
             THEN /\ pc' = "error"
                  /\ err' = "value"
                  /\ UNCHANGED slept
             ELSE /\ slept' = RetryAfter(h)
                  /\ UNCHANGED <<pc, err>>
    /\ cursor' = Retry429(cursor, page_count)[1]
    /\ page_count' = Retry429(cursor, page_count)[2]
    /\ UNCHANGED <<config, effective, payload, pending,
                   yielded, batch, counters, next_uuid, outputs, summary>>

\* session.get answered with another unsuccessful status: raise_for_status
\* raises out of the generator and nothing in main catches it (a status
\* that did not raise would be read as a page with no results and no meta)
GetError ==
    /\ pc = "request"
    /\ Len(requests) < MaxRequests
    /\ \E status \in ErrorStatuses :
          /\ requests' = Append(requests,
                                [cursor |-> cursor, status |-> status])
          /\ IF RaisesForStatus(status)
             THEN /\ pc' = "error"
                  /\ err' = "http"
                  /\ UNCHANGED <<payload, pending>>
             ELSE /\ pc' = "yield"
                  /\ payload' = NoPayload
                  /\ pending' = <<>>
                  /\ UNCHANGED err
    /\ UNCHANGED <<config, effective, cursor, page_count, yielded,
                   slept, batch, counters, next_uuid, outputs, summary>>

\* session.get answered 200: the page's results are about to be yielded
GetOk ==
    /\ pc = "request"
    /\ Len(requests) < MaxRequests
    /\ requests' = Append(requests, [cursor |-> cursor, status |-> 200])
    /\ payload' = ServePage(cursor)
    /\ pending' = ServePage(cursor).results
    /\ pc' = "yield"
    /\ UNCHANGED <<err, config, effective, cursor, page_count, yielded,
                   slept, batch, counters, next_uuid, outputs, summary>>

\* the page is exhausted and carries no next_cursor: the generator returns
EndNoCursor ==
    /\ pc = "yield"
    /\ pending = <<>>
    /\ EndOfCursor(payload.next_cursor)
    /\ pc' = "remainder"
    /\ UNCHANGED <<err, config, effective, fetcher, batch, counters,
                   next_uuid, outputs, summary>>

\* the page is exhausted, the cursor advances, the page cap stops the loop
EndCap ==
    /\ pc = "yield"
    /\ pending = <<>>
    /\ ~EndOfCursor(payload.next_cursor)
    /\ cursor' = payload.next_cursor
    /\ page_count' = page_count + 1
    /\ CapReached(max_pages, page_count + 1)
    /\ pc' = "remainder"
    /\ UNCHANGED <<err, config, effective, payload, pending, requests,
                   yielded, slept, batch, counters, next_uuid, outputs,
                   summary>>

\* a generator that asks for the next page before the page is used up
EndContinuePrefetch ==
    /\ pc = "yield"
    /\ ~EndOfCursor(payload.next_cursor)
    /\ cursor' = payload.next_cursor
    /\ page_count' = page_count + 1
    /\ ~CapReached(max_pages, page_count + 1)
    /\ slept' = IF eff_batch_sleep # 0 THEN eff_batch_sleep ELSE slept
    /\ pc' = "request"
    /\ UNCHANGED <<err, config, effective, payload, pending, requests,
                   yielded, batch, counters, next_uuid, outputs, summary>>

\* the page is exhausted, the cursor advances, the loop sleeps and goes on
EndContinue ==
    /\ pc = "yield"
    /\ pending = <<>>
    /\ ~EndOfCursor(payload.next_cursor)
    /\ cursor' = payload.next_cursor
    /\ page_count' = page_count + 1
    /\ ~CapReached(max_pages, page_count + 1)
    /\ slept' = IF eff_batch_sleep # 0 THEN eff_batch_sleep ELSE slept
    /\ pc' = "request"
    /\ UNCHANGED <<err, config, effective, payload, pending, requests,
                   yielded, batch, counters, next_uuid, outputs, summary>>

(* ------------------------ flush ---------------------------------------- *)
\* Envelope.model_dump(by_alias=True): load_id goes out as _LOAD_ID
model_dump(b) == [id |-> b.id, LOAD_ID |-> b.load_id]

\* a list that loses the last envelope of the batch
RecordsButLast(b) == [i \in 1..(Len(b) - 1) |-> model_dump(b[i])]

\* records = [e.model_dump(...) for e in batch]
Records(b) == [i \in 1..Len(b) |-> model_dump(b[i])]

\* a flush that ignores the dry-run flag
SkipsSinkNever(dry) == FALSE

\* "if dry_run: ... return total, failed" before the sink is touched
SkipsSink(dry) == dry

\* a flush that counts calls, not records
SentAfterCountsCalls(total, records) == total + 1

\* total += len(records)
SentAfter(total, records) == total + Len(records)

\* a count read with the wrong sign
FailedCountNegated(resp) == IF TruthyInt(resp) THEN 0 - resp.v ELSE 0

\* failed_count = int(resp.get("FailedPutCount", 0) or 0)
FailedCount(resp) == IF TruthyInt(resp) THEN resp.v ELSE 0

\* a flush that assigns where it should add
FailedAfterOverwrites(failed, resp) == FailedCount(resp)

\* failed += failed_count
FailedAfter(failed, resp) == failed + FailedCount(resp)

\* what the sink said, counted independently of flush
Reported(resp) == IF resp.kind = "int" THEN resp.v ELSE 0

\* a dry-run line that counts batches, not records
WouldSendCountsBatches(records) == 1

\* "would send {len(records)} records"
WouldSendCount(records) == Len(records)

FlushDry(b) ==
    /\ wouldSend' = Append(wouldSend, WouldSendCount(Records(b)))
    /\ UNCHANGED <<sinkCalls, counters>>

\* the example lines of one flush: none unless failed_count is truthy, then
\* one per entry with an error, the loop breaking at the third
ExamplesPrinted(resp, errs) ==
    IF FailedCount(resp) # 0
    THEN IF errs >= MaxExamples THEN MaxExamples ELSE errs
    ELSE 0

FlushSend(b, resp) ==
    /\ sinkCalls' = Append(sinkCalls, Records(b))
    /\ total_sent' = SentAfter(total_sent, Records(b))
    /\ total_failed' = FailedAfter(total_failed, resp)
    /\ lastResp' = resp
    /\ reportedSum' = reportedSum + Reported(resp)
    /\ withinBatch' = (withinBatch /\ Reported(resp) <= Len(Records(b)))
    /\ examples' = examples + ExamplesPrinted(resp, ErrorEntries)
    /\ UNCHANGED wouldSend

\* a flush that counts the batch before it calls the sink
FlushRaiseCounted(b) ==
    /\ sinkCalls' = Append(sinkCalls, Records(b))
    /\ total_sent' = SentAfter(total_sent, Records(b))
    /\ UNCHANGED <<wouldSend, total_failed, lastResp, reportedSum,
                   withinBatch, examples>>

\* sink.put_records raises: flush and main propagate the exception
FlushRaise(b) ==
    /\ sinkCalls' = Append(sinkCalls, Records(b))
    /\ UNCHANGED <<wouldSend, counters>>

(* ------------------------ main: the loop body -------------------------- *)
\* Envelope.from_openalex for the record, with a fresh load_id
Normalize(raw, uuid) == [id |-> raw, load_id |-> uuid]

\* a batch that grows at the front
AppendEnvFront(b, env) == <<env>> \o b

\* batch.append(env)
AppendEnv(b, env) == Append(b, env)

\* a threshold test that is off by one
BatchFullStrict(b, eff) == Len(b) > eff

\* "if len(batch) >= eff_batch_size"
BatchFull(b, eff) == Len(b) >= eff

\* a model that takes every record
MalformedNever(raw) == FALSE

\* OpenAlexWork.model_validate(raw) raises
Malformed(raw) == raw < 0

\* works_stream yields the next item of the page, main normalizes it
Pull ==
    /\ pc = "yield"
    /\ pending # <<>>
    /\ ~Malformed(Head(pending))
    /\ yielded' = Append(yielded, Head(pending))
    /\ pending' = Tail(pending)
    /\ next_uuid' = next_uuid + 1
    /\ UNCHANGED <<config, effective, cursor, page_count, payload,
                   requests, slept, summary>>

NewBatch == AppendEnv(batch, Normalize(Head(pending), next_uuid))

\* one iteration that leaves the batch below the threshold
ConsumeAppend ==
    /\ Pull
    /\ ~BatchFull(NewBatch, eff_batch_size)
    /\ batch' = NewBatch
    /\ UNCHANGED <<pc, err, counters, outputs>>

\* one iteration that fills the batch, dry-run
ConsumeFlushDry ==
    /\ Pull
    /\ BatchFull(NewBatch, eff_batch_size)
    /\ SkipsSink(dry_run)
    /\ FlushDry(NewBatch)
    /\ batch' = <<>>
    /\ UNCHANGED <<pc, err>>

\* one iteration that fills the batch, the sink answers
ConsumeFlushSend ==
    /\ Pull
    /\ BatchFull(NewBatch, eff_batch_size)
    /\ ~SkipsSink(dry_run)
    /\ \E resp \in FailedPutCounts : FlushSend(NewBatch, resp)
    /\ batch' = <<>>
    /\ UNCHANGED <<pc, err>>

\* one iteration that fills the batch, the sink raises
ConsumeFlushRaise ==
    /\ Pull
    /\ BatchFull(NewBatch, eff_batch_size)
    /\ ~SkipsSink(dry_run)
    /\ FlushRaise(NewBatch)
    /\ batch' = NewBatch
    /\ pc' = "error"
    /\ err' = "sink"

\* one iteration on a malformed record: model_validate raises, nothing in
\* main catches it
ConsumeInvalid ==
    /\ pc = "yield"
    /\ pending # <<>>
    /\ Malformed(Head(pending))
    /\ yielded' = Append(yielded, Head(pending))
    /\ pending' = Tail(pending)
    /\ pc' = "error"
    /\ err' = "validation"
    /\ UNCHANGED <<config, effective, cursor, page_count, payload, requests,
                   slept, batch, counters, next_uuid, outputs, summary>>

(* ------------------------ main: after the loop ------------------------- *)
\* "if batch:" is false
RemainderEmpty ==
    /\ pc = "remainder"
    /\ batch = <<>>
    /\ pc' = "summary"
    /\ UNCHANGED <<err, config, effective, fetcher, batch, counters,
                   next_uuid, outputs, summary>>

RemainderDry ==
    /\ pc = "remainder"
    /\ batch # <<>>
    /\ SkipsSink(dry_run)
    /\ FlushDry(batch)
    /\ pc' = "summary"
    /\ UNCHANGED <<err, config, effective, fetcher, batch, next_uuid,
                   summary>>

RemainderSend ==
    /\ pc = "remainder"
    /\ batch # <<>>
    /\ ~SkipsSink(dry_run)
    /\ \E resp \in FailedPutCounts : FlushSend(batch, resp)
    /\ pc' = "summary"
    /\ UNCHANGED <<err, config, effective, fetcher, batch, next_uuid,
                   summary>>

RemainderRaise ==
    /\ pc = "remainder"
    /\ batch # <<>>
    /\ ~SkipsSink(dry_run)
    /\ FlushRaise(batch)
    /\ pc' = "error"
    /\ err' = "sink"
    /\ UNCHANGED <<config, effective, fetcher, batch, next_uuid,
                   summary>>

\* the summary table
Summary ==
    /\ pc = "summary"
    /\ summary' = TRUE
    /\ pc' = "done"
    /\ UNCHANGED <<err, config, effective, fetcher, batch, counters,
                   next_uuid, outputs>>

Next ==
    \/ StartOk \/ StartConfigError \/ StartBadParameter
    \/ Get429 \/ GetError \/ GetOk
    \/ EndNoCursor \/ EndCap \/ EndContinue
    \/ ConsumeAppend \/ ConsumeFlushDry \/ ConsumeFlushSend
    \/ ConsumeFlushRaise \/ ConsumeInvalid
    \/ RemainderEmpty \/ RemainderDry \/ RemainderSend \/ RemainderRaise
    \/ Summary

Spec == Init /\ [][Next]_vars

(* The runs on which progress is checked: the upstream may also be a chain *)
(* that never ends.  main is one sequential process, so a step that can    *)
(* be taken is taken.                                                      *)
LiveSizes == {sizes \in PageSizes : Len(sizes) <= 2}

LiveChains ==
    {MkChain(sizes, None) : sizes \in LiveSizes}
        \cup {MkChain(sizes, "*") : sizes \in LiveSizes}
        \cup {Spoil(MkChain(sizes, None), SumSeq(sizes)) : sizes \in LiveSizes}

LiveCliInputs ==
    {<<NoneInt, 2, NoneInt>>, <<Num(1), 2, Num(1)>>, <<Num(501), 2, NoneInt>>}

\* (an endless chain without a page cap is followed up to the cap on the
\* request log: one record per round is enough to see it go on)
LiveInit ==
    /\ InitWith(LiveChains)
    /\ cfg.aws_region # ""
    /\ cfg.firehose_name # ""
    /\ <<batch_size, cfg.batch_size, batch_sleep>> \in LiveCliInputs
    /\ \/ Finite(chain)
       \/ TruthyInt(max_pages)
       \/ Len(chain) = 1 /\ Len(chain[1].results) <= 1

LiveSpec == LiveInit /\ [][Next]_vars /\ WF_vars(Next)

(* ======================== properties =================================== *)
Last(s) == s[Len(s)]

NoDup(s) == \A i, j \in DOMAIN s : s[i] = s[j] => i = j

\* ids of the records handed to the sink, over all calls, in call order
SinkIds == [i \in DOMAIN Concat(sinkCalls) |-> Concat(sinkCalls)[i].id]

\* sizes of the sink calls
CallSizes == [i \in DOMAIN sinkCalls |-> Len(sinkCalls[i])]

\* this step is a sink call that returned a response
SinkReturned == Len(sinkCalls') = Len(sinkCalls) + 1 /\ err' = "none"

\* the generator has returned normally
StreamEnded == pc \in {"remainder", "summary", "done"}

Count200(log) == Cardinality({i \in DOMAIN log : log[i].status = 200})

\* C1: a non-dry-run flush that returns adds exactly len(B) to total_sent,
\* whatever FailedPutCount the sink reports.
C1_SentGrowsByBatchLen ==
    [][SinkReturned =>
          total_sent' = total_sent + Len(Last(sinkCalls'))]_vars

\* a batch whose every record was reported failed has been counted as sent
C1_Witness ==
    /\ sinkCalls # <<>>
    /\ err = "none"
    /\ Len(Last(sinkCalls)) = 1
    /\ lastResp = Num(1)
    /\ total_sent >= 2

C3_BatchCuts ==
    /\ \A i \in DOMAIN sinkCalls :
          Len(sinkCalls[i]) >= 1 /\ Len(sinkCalls[i]) <= eff_batch_size
    /\ (pc = "done" /\ ~dry_run) =>
          LET n == Len(yielded)
              b == eff_batch_size
          IN  /\ Len(sinkCalls) = (n + b - 1) \div b
              /\ \A i \in 1..(Len(sinkCalls) - 1) : Len(sinkCalls[i]) = b
              /\ total_sent = n
              /\ total_failed = reportedSum

\* n = 3, b = 2, the second call reporting one failure
C3_Witness ==
    /\ pc = "done"
    /\ ~dry_run
    /\ eff_batch_size = 2
    /\ Len(yielded) = 3
    /\ CallSizes = <<2, 1>>
    /\ lastResp = Num(1)
    /\ total_sent = 3
    /\ total_failed = 1

\* C4: in a completed non-dry run the sink calls, concatenated in call
\* order, carry exactly the fetched records in the order fetched.
C4_OrderPreserved ==
    (pc = "done" /\ ~dry_run) => SinkIds = yielded

\* three records over two pages went out in two calls
C4_Witness ==
    /\ pc = "done"
    /\ ~dry_run
    /\ Len(yielded) >= 3
    /\ Len(sinkCalls) >= 2
    /\ Count200(requests) = 2

\* C5: in dry-run mode the sink is never called and both counters stay 0.
C5_DryRunNeverSends ==
    dry_run => sinkCalls = <<>> /\ total_sent = 0 /\ total_failed = 0

\* a dry run that cut batches and reached the summary
C5_Witness ==
    /\ dry_run
    /\ pc = "done"
    /\ summary
    /\ Len(yielded) >= 3
    /\ Len(wouldSend) >= 2
(* ------------------------ what the inputs determine -------------------- *)
IsPrefix(s, t) == Len(s) <= Len(t) /\ SubSeq(t, 1, Len(s)) = s

Min(a, b) == IF a <= b THEN a ELSE b

Count429s == Count429(requests)

\* the cursor that reaches page j of the chain: "*" for the first page,
\* then the next_cursor page j-1 returned
PageCursor(j) == IF j = 1 THEN "*" ELSE chain[j - 1].next_cursor

\* successful responses among the first i-1 requests
OkBefore(i) == Cardinality({j \in 1..(i - 1) : requests[j].status = 200})

\* every request carries the cursor of the page after the last success
CursorsFollowChain ==
    \A i \in DOMAIN requests :
        /\ OkBefore(i) < Len(chain)
        /\ requests[i].cursor = PageCursor(OkBefore(i) + 1)

\* the items of the first k pages, in source order
AllItems(k) == Concat([j \in 1..k |-> chain[j].results])

\* pages a run reads when nothing fails
ExpectedPages ==
    IF TruthyInt(max_pages) THEN Min(Len(chain), max_pages.v) ELSE Len(chain)

\* sizes of the batches cut from n records with threshold b
ExpectedCuts(n, b) ==
    [i \in 1..((n + b - 1) \div b) |-> IF i * b <= n THEN b ELSE n - (i - 1) * b]

\* sizes of the batches this run has cut, in either mode
Cuts == IF dry_run THEN wouldSend ELSE CallSizes

BatchIds == [i \in DOMAIN batch |-> batch[i].id]

\* C6: fetching, normalizing and batching do not depend on dry_run: in both
\* modes the requests, the records yielded, the buffer and the batch cuts
\* are the same function of the configuration and the upstream responses;
\* a dry run reports each cut as a would-send count, never calls the sink,
\* and its counts sum to the number of records fetched.
C6_DryRunSameWork ==
    /\ CursorsFollowChain
    /\ IsPrefix(yielded, AllItems(ExpectedPages))
    /\ pc \in {"request", "yield", "remainder"} =>
          /\ IsPrefix(Cuts, ExpectedCuts(Len(yielded), eff_batch_size))
          /\ \A i \in DOMAIN Cuts : Cuts[i] = eff_batch_size
          /\ BatchIds = SubSeq(yielded, SumSeq(Cuts) + 1, Len(yielded))
    /\ pc = "done" =>
          /\ yielded = AllItems(ExpectedPages)
          /\ Count200(requests) = ExpectedPages
          /\ Cuts = ExpectedCuts(Len(yielded), eff_batch_size)
    /\ dry_run => sinkCalls = <<>>
    /\ ~dry_run => wouldSend = <<>>
    /\ (dry_run /\ pc = "done") => SumSeq(wouldSend) = Len(yielded)

\* a dry run over three records cut them 2 + 1 after a 429
C6_Witness ==
    /\ dry_run
    /\ pc = "done"
    /\ wouldSend = <<2, 1>>
    /\ Count429s >= 1
    /\ Count200(requests) = 2

\* C7: with no page cap, when the generator returns it has yielded the
\* items of all pages of the chain in source order, the first request used
\* "*", each later one the next_cursor of the page before, and the last
\* request is the one that fetched the last page.
C7_CursorPagination ==
    max_pages = NoneInt =>
        /\ requests # <<>> => requests[1].cursor = "*"
        /\ CursorsFollowChain
        /\ StreamEnded =>
              /\ yielded = AllItems(Len(chain))
              /\ Count200(requests) = Len(chain)
              /\ Last(requests).status = 200
              /\ Last(requests).cursor = PageCursor(Len(chain))

\* two pages, the first pointing to the second with "abc", the second
\* ending with an empty cursor
C7_Witness ==
    /\ max_pages = NoneInt
    /\ pc = "done"
    /\ Len(chain) = 2
    /\ chain[2].next_cursor = ""
    /\ Len(yielded) = 3
    /\ Count429s = 0
    /\ Len(requests) = 2
    /\ requests[2].cursor = "abc"

\* C8: a 429 is retried with the same cursor and is not a page: the step
\* changes neither the cursor, the page count nor what has been yielded,
\* and for every placement of 429 responses the generator ends after the
\* same pages and has yielded the same items as without them.
C8_RetryKeepsPlace ==
    /\ [](/\ CursorsFollowChain
          /\ page_count <= Count200(requests)
          /\ NoDup(yielded)
          /\ StreamEnded =>
                /\ Count200(requests) = ExpectedPages
                /\ yielded = AllItems(ExpectedPages))
    /\ [][Count429(requests') > Count429(requests) =>
            /\ cursor' = cursor
            /\ page_count' = page_count
            /\ yielded' = yielded
            /\ pending' = pending
            /\ pc' = "request"]_vars

\* a run capped at one page met a 429 first and stopped after the page
C8_Witness ==
    /\ pc = "done"
    /\ max_pages = Num(1)
    /\ Len(chain) = 2
    /\ Len(requests) = 2
    /\ requests[1].status = 429
    /\ requests[2].status = 200
    /\ yielded = chain[1].results
    /\ yielded # <<>>

\* C9: with a page cap N >= 1 at most N pages are fetched successfully,
\* only their items are yielded, and the N-th successful response is the
\* last request of the run, next_cursor or not.
C9_PageCap ==
    TruthyInt(max_pages) =>
        /\ Count200(requests) <= max_pages.v
        /\ IsPrefix(yielded, AllItems(Min(Len(chain), max_pages.v)))
        /\ Count200(requests) = max_pages.v =>
              /\ Last(requests).status = 200
              /\ pc # "request"

\* cap 1 on a chain of two pages: the run ended after the first page,
\* whose next_cursor pointed to the second
C9_Witness ==
    /\ max_pages = Num(1)
    /\ pc = "done"
    /\ Len(chain) = 2
    /\ chain[1].next_cursor = "abc"
    /\ cursor = "abc"
    /\ Len(requests) = 1
    /\ yielded = chain[1].results
    /\ yielded # <<>>
    /\ chain[2].results # <<>>

\* C10: a response with an unsuccessful status other than 429 is the last
\* request of the run: the run is in error, no summary is printed, and
\* what was yielded is what the successful pages before it held.
C10_FatalStatus ==
    \A i \in DOMAIN requests :
        requests[i].status \in ErrorStatuses =>
            /\ i = Len(requests)
            /\ pc = "error"
            /\ err = "http"
            /\ ~summary
            /\ yielded = AllItems(Count200(requests))

\* the second request got a 404 after a first page had been read
C10_Witness ==
    /\ pc = "error"
    /\ Len(requests) = 2
    /\ requests[2].status = 404
    /\ yielded # <<>>
    /\ chain[2].results # <<>>
    /\ batch # <<>>
    /\ ~summary
(* ------------------------ configuration claims ------------------------- *)
\* the values the operator configured: the explicit argument when one was
\* passed, the environment's otherwise
ConfiguredBatchSize ==
    IF batch_size # NoneInt THEN batch_size.v ELSE cfg.batch_size

ConfiguredBatchSleep ==
    IF batch_sleep # NoneInt THEN batch_sleep.v ELSE cfg.sleep_seconds

ConfigurationError ==
    \/ cfg.openalex_email = ""
    \/ cfg.aws_region = ""
    \/ cfg.firehose_name = ""
    \/ ConfiguredBatchSize < 1
    \/ ConfiguredBatchSize > 500

\* C11: a run configured with an empty contact email, region or stream
\* name, or with a batch size outside 1..500, never issues a request,
\* never calls the sink, prints no summary, and can only end in error.
C11_ConfigErrorFailsFast ==
    (u_op = "none" /\ ConfigurationError) =>
        /\ requests = <<>>
        /\ sinkCalls = <<>>
        /\ wouldSend = <<>>
        /\ ~summary
        /\ pc \in {"start", "error"}

\* C12: once main has resolved its options, the batch size and the
\* inter-page delay in force are the explicit arguments when given (0
\* included), the environment's values otherwise.
C12_ExplicitWins ==
    (u_op = "none" /\ pc # "start" /\ err # "config") =>
        /\ eff_batch_size = ConfiguredBatchSize
        /\ eff_batch_sleep = ConfiguredBatchSleep
\* ids of the records in flight or handed over: the batch, the sink calls
Batched == {b.id : b \in {batch[i] : i \in DOMAIN batch}}
               \cup {SinkIds[i] : i \in DOMAIN SinkIds}

\* the i-th record the stream yielded is one of the spoiled ones
YieldedSpoiled(i) == yielded[i] < 0

\* C19: a malformed record yielded by the stream ends the run at once with
\* a validation error, which is not the error of a failed request or of
\* the sink; it is in no batch, nothing is consumed after it and no
\* summary is printed.  No other record gives a validation error.
C19_MalformedAborts ==
    /\ \A i \in DOMAIN yielded :
           YieldedSpoiled(i) =>
               /\ i = Len(yielded)
               /\ pc = "error"
               /\ err = "validation"
               /\ err \notin {"http", "sink", "none"}
               /\ ~summary
               /\ yielded[i] \notin Batched
    /\ (u_op = "none" /\ err = "validation") =>
           yielded # <<>> /\ YieldedSpoiled(Len(yielded))

\* the third record is malformed, after two deliveries of one record
C19_Witness ==
    /\ err = "validation"
    /\ Len(yielded) = 3
    /\ Len(sinkCalls) = 2
    /\ total_sent = 2

(* ------------------------ run-level claims ----------------------------- *)
\* this step is a request answered 429
Got429 == Count429(requests') > Count429(requests)

\* C21: a 429 response never ends the run in error: the run stays at the
\* request with the cursor it had, after a sleep of the Retry-After
\* seconds, 2 when the header is missing.
C21_RateLimitNeverFails ==
    [][Got429 =>
          /\ pc' = "request"
          /\ err' = "none"
          /\ cursor' = cursor
          /\ slept' \in {2, 7}]_vars

\* every record the stream yielded has been handed to the sink, or, in
\* a dry run, counted in a "would send" line
AllDelivered ==
    IF dry_run THEN SumSeq(wouldSend) = Len(yielded)
    ELSE SinkIds = yielded

Requesting == Len(requests') > Len(requests)
Delivering == Len(sinkCalls') > Len(sinkCalls)
Reporting == Len(wouldSend') > Len(wouldSend)

\* every record yielded so far is in the buffer or was flushed, in order
Accounted ==
    IF dry_run THEN SumSeq(wouldSend) + Len(batch) = Len(yielded)
    ELSE SinkIds \o BatchIds = yielded

\* C23: a request is issued only when the page before it is used up, all
\* its records are in the buffer or flushed and the buffer is below the
\* threshold; no step both requests and delivers; once the stream has
\* ended (the remainder flush comes then) no request is issued.
C23_NoOverlap ==
    [][/\ Requesting =>
             /\ pending = <<>>
             /\ Accounted
             /\ Len(batch) < eff_batch_size
             /\ ~Delivering /\ ~Reporting
       /\ (Delivering \/ Reporting) => ~Requesting
       /\ (Delivering \/ Reporting) /\ pc = "remainder" =>
             pending = <<>> /\ pc' # "request"
       /\ StreamEnded => ~Requesting /\ yielded' = yielded]_vars

\* two pages: the first fills a batch of two, the second leaves one
\* record for the remainder flush
C23_Witness ==
    /\ pc = "done"
    /\ ~dry_run
    /\ Len(requests) = 2
    /\ CallSizes = <<2, 1>>
    /\ Len(chain[1].results) = 2

\* C25: no step of a run makes total_sent or total_failed smaller, and
\* while no sink response has reported more failures than its batch had
\* records, total_failed is at most total_sent.
C25_CountersMonotone ==
    /\ [][total_sent' >= total_sent /\ total_failed' >= total_failed]_vars
    /\ [](withinBatch => total_failed <= total_sent)

\* two deliveries, failures reported
C25_Witness ==
    /\ pc = "done"
    /\ Len(sinkCalls) = 2
    /\ total_sent = 3
    /\ total_failed = 2
    /\ withinBatch

\* C26: over a whole run the example failure diagnostics number at most
\* MaxExamples, however many batches reported failures, and a run whose
\* failed count stays 0 prints none
C26_ExamplesBounded ==
    /\ examples <= MaxExamples
    /\ total_failed = 0 => examples = 0

\* the run was started with --max-pages 0
ZeroCap == max_pages = Num(0)

\* C27: a page cap of 0 behaves like no page cap: the generator does not
\* stop after zero pages or at any page that carries a next_cursor, it goes
\* on requesting until a page has none, and a run that completes has read
\* every page of the collection and yielded all their records
C27_ZeroCapIsNoCap ==
    /\ [][(ZeroCap /\ pc = "yield" /\ pc' = "remainder")
            => payload.next_cursor \in {None, Absent, ""}]_vars
    /\ [](ZeroCap /\ pc = "done" =>
            /\ Count200(requests) = Len(chain)
            /\ Last(chain).next_cursor \in {None, Absent, ""}
            /\ yielded = AllItems(Len(chain)))

\* a completed run with cap 0 over two pages, the first carrying a cursor
C27_Witness ==
    /\ ZeroCap
    /\ pc = "done"
    /\ Len(chain) = 2
    /\ Count200(requests) = 2
    /\ Len(yielded) = 3

\* the run has ended on an exception raised inside the loop or by the sink
Aborted == pc = "error" /\ err \in {"http", "validation", "sink"}

\* the put_records calls that returned: all of them, but for the last one
\* when it is the call that raised
Returned ==
    IF err = "sink" THEN SubSeq(sinkCalls, 1, Len(sinkCalls) - 1)
    ELSE sinkCalls

ReturnedLoadIds ==
    UNION {{Returned[i][j].LOAD_ID : j \in DOMAIN Returned[i]} :
              i \in DOMAIN Returned}

\* C28: a run that aborts on a failed request, a validation error or an
\* exception of the sink leaves its in-flight batch undelivered (fewer than
\* eff_batch_size records, or the whole batch whose put call raised); no
\* step follows the abort, so no remainder flush and no summary; the calls
\* that returned before stay as they were, and the counters are not
\* advanced for the batch whose put call raised.
C28_AbortLosesBatch ==
    /\ [](Aborted =>
            /\ \A i \in DOMAIN batch : batch[i].load_id \notin ReturnedLoadIds
            /\ err # "sink" => Len(batch) <= eff_batch_size - 1
            /\ err = "sink" =>
                  /\ batch # <<>>
                  /\ Len(batch) <= eff_batch_size
                  /\ [i \in DOMAIN batch |-> batch[i].load_id]
                       = [i \in DOMAIN Last(sinkCalls) |->
                             Last(sinkCalls)[i].LOAD_ID]
            /\ total_sent = SumSeq([i \in DOMAIN Returned |-> Len(Returned[i])])
            /\ ~summary)
    /\ [][~Aborted]_vars
    /\ [][(Aborted' /\ ~Aborted) =>
            /\ Returned' = sinkCalls
            /\ wouldSend' = wouldSend
            /\ total_sent' = total_sent
            /\ total_failed' = total_failed]_vars

\* a batch of two was delivered and the put call for the remaining record
\* raised
C28_Witness ==
    /\ Aborted
    /\ err = "sink"
    /\ Len(sinkCalls) = 2
    /\ total_sent = 2
    /\ Len(batch) = 1

(* ======================== direct calls ================================== *)
(* The functions of the package called on their own, as the unit tests     *)
(* call them: the arguments are drawn in UnitInit, one action applies the  *)
(* function.  The variables of main keep the values they have before main  *)
(* starts.                                                                 *)
MaxArgv == 3         \* longest argument list

\* sequences over S of length at most n
SeqsUpTo(S, n) == UNION {[1..k -> S] : k \in 0..n}

(* ------------------------ _strip_run_alias ----------------------------- *)
ArgvTokens == {"-m", "run", "--batch-size"}

\* a shim that drops a leading "run" instead of the second token
StripRunAliasFirst(argv) ==
    IF Len(argv) > 0 /\ argv[1] = "run" THEN Tail(argv) ELSE argv

\* if len(argv) > 1 and argv[1] == "run": del argv[1]
StripRunAlias(argv) ==
    IF Len(argv) > 1 /\ argv[2] = "run"
    THEN <<argv[1]>> \o SubSeq(argv, 3, Len(argv))
    ELSE argv

StripInputs == SeqsUpTo(ArgvTokens, MaxArgv)

(* ------------------------ synthetic_email ------------------------------ *)
Names == {None, "", "unknown", "Alice Smith", "Bob"}
Domains == {Absent, "example.com", "acme.test"}

\* hashlib.sha1(seed).hexdigest()[:10]
sha1_10(seed) ==
    CASE seed = "unknown"     -> "50d8b4a941"
      [] seed = "Alice Smith" -> "99b060e16d"
      [] seed = "Bob"         -> "da6645f6e2"
      [] seed = ""            -> "da39a3ee5e"

\* a seed that falls back to the empty name: (name or "")
seed_of_empty(name) == IF TruthyStr(name) THEN name ELSE ""

\* (name or "unknown")
seed_of(name) == IF TruthyStr(name) THEN name ELSE "unknown"

\* f"user_{h}@{domain}", domain="example.com" when not given
synthetic_email(name, domain) ==
    <<"user_", sha1_10(seed_of(name)), "@",
      IF domain = Absent THEN "example.com" ELSE domain>>

EmailArgs == [name : Names, domain : Domains]
EmailInputs == [first : EmailArgs, second : EmailArgs]

(* ------------------------ OpenAlexWork, Envelope ----------------------- *)
(* A JSON value is tagged with its kind: a string, an integer, null, an    *)
(* object, an array, or the key being missing.  An email is a string kept  *)
(* as a text in pieces, as synthetic_email builds it ("" is <<>>).         *)
Str(s) == [kind |-> "str", v |-> s]
Text(t) == [kind |-> "text", v |-> t]
Dict(d) == [kind |-> "dict", v |-> d]
List(l) == [kind |-> "list", v |-> l]
Datetime(t) == [kind |-> "datetime", v |-> t]
Null == NoneInt
Missing == AbsentInt
Invalid == [kind |-> "invalid", v |-> 0]     \* pydantic rejects the input

Source == "openalex"                          \* cfg.source

\* Optional[str] = None (an integer is not taken for a string)
validate_str(x) ==
    CASE x.kind \in {"absent", "None"} -> Null
      [] x.kind \in {"str", "text"} -> x
      [] OTHER -> Invalid

\* Optional[int] = None (a string of digits is converted)
validate_int(x) ==
    CASE x.kind \in {"absent", "None"} -> Null
      [] x.kind = "int" -> x
      [] x.kind = "str" /\ x.v = "2024" -> Num(2024)
      [] OTHER -> Invalid

\* Optional[datetime] = None (an ISO 8601 string is parsed)
validate_datetime(x) ==
    CASE x.kind \in {"absent", "None"} -> Null
      [] x.kind = "str" /\ x.v = "2024-01-01T12:00:00Z" -> Datetime(1)
      [] OTHER -> Invalid

\* HostVenue and AuthorRef: display_name: Optional[str] = None
validate_named(x) ==
    CASE x.kind \in {"absent", "None"} -> Null
      [] x.kind = "dict" ->
            IF validate_str(x.v.display_name) = Invalid THEN Invalid
            ELSE Dict([display_name |-> validate_str(x.v.display_name)])
      [] OTHER -> Invalid

\* Optional[List[Authorship]] = None, Authorship.author: Optional[AuthorRef]
validate_authorships(x) ==
    CASE x.kind \in {"absent", "None"} -> Null
      [] x.kind = "list" ->
            IF \E i \in DOMAIN x.v : validate_named(x.v[i].author) = Invalid
            THEN Invalid
            ELSE List([i \in DOMAIN x.v |->
                          [author |-> validate_named(x.v[i].author)]])
      [] OTHER -> Invalid

\* the declared fields of OpenAlexWork, each validated; extra="ignore"
work_fields(raw) ==
    [id               |-> validate_str(raw.id),
     doi              |-> validate_str(raw.doi),
     title            |-> validate_str(raw.title),
     publication_year |-> validate_int(raw.publication_year),
     host_venue       |-> validate_named(raw.host_venue),
     authorships      |-> validate_authorships(raw.authorships),
     email            |-> validate_str(raw.email),
     event_ts         |-> validate_datetime(raw.event_ts)]

\* a model that forbids extra keys
raises_validation_forbid(raw) ==
    \/ \E f \in DOMAIN work_fields(raw) : work_fields(raw)[f] = Invalid
    \/ raw.extra_field.kind # "absent"

\* OpenAlexWork.model_validate(raw) raises ValidationError
raises_validation(raw) ==
    \E f \in DOMAIN work_fields(raw) : work_fields(raw)[f] = Invalid

\* truthiness of a validated value: None, "" and [] are falsy, a model is
\* truthy
Truthy(x) ==
    CASE x.kind = "None" -> FALSE
      [] x.kind = "str" -> x.v # ""
      [] x.kind \in {"text", "list"} -> x.v # <<>>
      [] OTHER -> TRUE

\* w.authorships[0].author.display_name, as a name for synthetic_email
name_of(author) ==
    IF author.v.display_name.kind = "None" THEN None
    ELSE author.v.display_name.v

\* an email kept whenever it is not None
email_of_not_none(w) ==
    IF w.email.kind # "None" THEN w.email.v
    ELSE synthetic_email(
             IF Truthy(w.authorships) /\ Truthy(w.authorships.v[1].author)
             THEN name_of(w.authorships.v[1].author)
             ELSE None,
             Absent)

\* producer.py: w.email or synthetic_email(<first author's name> or None)
email_of(w) ==
    IF Truthy(w.email) THEN w.email.v
    ELSE synthetic_email(
             IF Truthy(w.authorships) /\ Truthy(w.authorships.v[1].author)
             THEN name_of(w.authorships.v[1].author)
             ELSE None,
             Absent)

\* str(uuid.uuid4()): a fresh value on every call, told apart by n
uuid4_str(n) == <<"uuid4", n>>

\* a default made once, when the class is defined: default=str(uuid.uuid4())
load_id_default(n) == uuid4_str(0)

\* default_factory=lambda: str(uuid.uuid4())
load_id_factory(n) == uuid4_str(n)

\* Envelope.from_openalex(w, event_ts, ingest_ts, email, source)
from_openalex(w, event_ts, ingest_ts, email, source, n) ==
    [id               |-> w.id,
     doi              |-> w.doi,
     title            |-> w.title,
     publication_year |-> w.publication_year,
     host_venue       |-> IF Truthy(w.host_venue)
                          THEN w.host_venue.v.display_name ELSE Null,
     primary_author   |-> IF /\ Truthy(w.authorships)
                             /\ Len(w.authorships.v) > 0
                             /\ Truthy(w.authorships.v[1].author)
                          THEN w.authorships.v[1].author.v.display_name
                          ELSE Null,
     email            |-> Text(email),
     event_ts         |-> Datetime(event_ts),
     ingest_ts        |-> Datetime(ingest_ts),
     source           |-> Str(source),
     load_id          |-> Text(load_id_factory(n))]

\* a loop body that reads the clock again for ingest_ts
normalize_two_clocks(raw, now, n) ==
    LET w == work_fields(raw)
    IN  from_openalex(w, now, now + 1, email_of(w), Source, n)

\* the loop body of main for one raw record that validates
normalize(raw, now, n) ==
    LET w == work_fields(raw)
    IN  from_openalex(w, now, now, email_of(w), Source, n)

\* the keys of a dumped envelope, in field order, load_id under its alias
DumpKeys ==
    <<"id", "doi", "title", "publication_year", "host_venue",
      "primary_author", "email", "event_ts", "ingest_ts", "source",
      "_LOAD_ID">>

FieldOf(key) == IF key = "_LOAD_ID" THEN "load_id" ELSE key

\* datetime.isoformat() of the clock readings, as mode="json" writes it
isoformat(t) ==
    CASE t = 1 -> "2024-01-01T12:00:01Z"
      [] t = 2 -> "2024-01-01T12:00:02Z"
      [] t = 3 -> "2024-01-01T12:00:03Z"

\* mode="json": a datetime goes out as a string
json_value(x) == IF x.kind = "datetime" THEN Str(isoformat(x.v)) ELSE x

RECURSIVE dump_from(_, _)
dump_from(env, i) ==
    IF i > Len(DumpKeys) THEN <<>>
    ELSE (IF env[FieldOf(DumpKeys[i])].kind = "None" THEN <<>>
          ELSE <<<<DumpKeys[i], json_value(env[FieldOf(DumpKeys[i])])>>>>)
             \o dump_from(env, i + 1)

\* env.model_dump(by_alias=True, mode="json", exclude_none=True)
model_dump_json(env) == dump_from(env, 1)

\* the business fields of raw records: the sample of the tests, an empty
\* record, a year in digits, and one wrong type at a time
BusinessFields ==
    LET sample == [id |-> Str("W123"), doi |-> Str("10.1234/abc"),
                   title |-> Str("A Study on Streams"),
                   publication_year |-> Num(2024),
                   host_venue |-> Dict([display_name |-> Str("VenueX")])]
    IN  {sample,
         [id |-> Missing, doi |-> Missing, title |-> Missing,
          publication_year |-> Missing, host_venue |-> Missing],
         [id |-> Str("W123"), doi |-> Missing, title |-> Null,
          publication_year |-> Str("2024"),
          host_venue |-> Dict([display_name |-> Missing])],
         [sample EXCEPT !.publication_year = Str("abc")],
         [sample EXCEPT !.id = Num(7)],
         [sample EXCEPT !.host_venue = Str("VenueX")]}

Author(name) == [author |-> Dict([display_name |-> name])]

RawAuthorships ==
    {Missing,
     List(<<>>),
     List(<<[author |-> Missing]>>),
     List(<<Author(Missing)>>),
     List(<<Author(Str(""))>>),
     List(<<Author(Str("Alice Smith")), Author(Str("Bob"))>>),
     List(<<[author |-> Missing], Author(Str("Bob"))>>),
     Str("Alice Smith")}

RawEmails ==
    {Missing, Null, Text(<<>>), Text(<<"x", "@", "ex.com">>), Num(7)}

RawEventTs == {Missing, Str("2024-01-01T12:00:00Z"), Str("yesterday")}

RawExtras == {Missing, Str("ignored")}

RawRecord(b, a, e, t, x) ==
    [id |-> b.id, doi |-> b.doi, title |-> b.title,
     publication_year |-> b.publication_year, host_venue |-> b.host_venue,
     authorships |-> a, email |-> e, event_ts |-> t, extra_field |-> x]

\* raw records that differ from raw at most in event_ts and in extra keys
Variants(raw) ==
    {[raw EXCEPT !.event_ts = t, !.extra_field = x] :
        t \in RawEventTs, x \in RawExtras}

\* the clock at the second record, the first being read at 1
ClockReadings == {1, 2}

\* the clock when the batch of the two is flushed
FlushReading == 2

\* what the sink of the tests answers
FakeSinkResponse == Num(1)

(* ------------------------ FirehoseSink.put_records --------------------- *)
(* A text is a sequence of characters; LF and SP stand for the newline and *)
(* the space.  A record is a dict: its <<key, value>> items in insertion   *)
(* order, the values being texts.                                          *)
MaxPut == 2                  \* longest list of distinct records handed over
MaxBatchRecords == 500       \* the ceiling main enforces on a batch

LF == "LF"
SP == "SP"

RECURSIVE escape(_)
\* json.dumps writes a control character of a string as an escape
escape(text) ==
    IF text = <<>> THEN <<>>
    ELSE (IF Head(text) = LF THEN <<"\\", "n">> ELSE <<Head(text)>>)
             \o escape(Tail(text))

quote(text) == <<"\"">> \o escape(text) \o <<"\"">>

RECURSIVE dumps_items(_, _, _)
dumps_items(items, item_sep, key_sep) ==
    IF items = <<>> THEN <<>>
    ELSE quote(<<Head(items)[1]>>) \o key_sep \o quote(Head(items)[2])
             \o (IF Tail(items) = <<>> THEN <<>> ELSE item_sep)
             \o dumps_items(Tail(items), item_sep, key_sep)

\* json.dumps(r, separators=(item_sep, key_sep))
dumps(r, item_sep, key_sep) ==
    <<"{">> \o dumps_items(r, item_sep, key_sep) \o <<"}">>

\* .encode("utf-8"): dumps writes ASCII only, one byte per character
encode(text) == [bytes |-> text]

\* a line written with the default separators of json.dumps
ndjson_line_spaced(r) == encode(dumps(r, <<",", SP>>, <<":", SP>>) \o <<LF>>)

\* (json.dumps(r, separators=(",", ":")) + "\n").encode("utf-8")
ndjson_line(r) == encode(dumps(r, <<",">>, <<":">>) \o <<LF>>)

\* entries = [{"Data": ...} for r in records_json]; one put_record_batch;
\* its response is returned, its exception propagates
put_records(stream_name, records_json, transport) ==
    LET entries == [i \in 1..Len(records_json) |->
                        [Data |-> ndjson_line(records_json[i])]]
    IN  [calls  |-> <<[DeliveryStreamName |-> stream_name, Records |-> entries]>>,
         raised |-> transport.raises,
         resp   |-> transport.resp]

RecordsJson ==
    {<<>>,
     <<<<"a", <<"x">>>>>>,
     <<<<"id", <<"x", SP, "y">>>>, <<"_LOAD_ID", <<"u", LF>>>>>>}

\* the lists the tests hand over, and lists around the ceiling
PutLists ==
    SeqsUpTo(RecordsJson, MaxPut)
        \cup {[i \in 1..n |-> <<<<"a", <<"x">>>>>>] :
                  n \in {MaxBatchRecords, MaxBatchRecords + 1}}

\* what client.put_record_batch does: a response, or an exception
Transports ==
    [raises : {FALSE}, resp : FailedPutCounts]
        \cup [raises : {TRUE}, resp : {AbsentInt}]

PutInputs ==
    [stream_name : {"s", "t"}, records_json : PutLists, transport : Transports]

UnitInit ==
    /\ pc = "call"
    /\ err = "none"
    /\ cfg = [openalex_email |-> "me@example.com", aws_region |-> "us-east-1",
              firehose_name |-> "stream", batch_size |-> 2,
              sleep_seconds |-> DefaultSleepSeconds]
    /\ batch_size = NoneInt
    /\ batch_sleep = NoneInt
    /\ max_pages = NoneInt
    /\ dry_run = FALSE
    /\ chain = MkChain(<<0>>, None)
    /\ eff_batch_size = 0
    /\ eff_batch_sleep = 0
    /\ cursor = "*"
    /\ page_count = 0
    /\ payload = NoPayload
    /\ pending = <<>>
    /\ batch = <<>>
    /\ total_sent = 0
    /\ total_failed = 0
    /\ next_uuid = 1
    /\ requests = <<>>
    /\ yielded = <<>>
    /\ sinkCalls = <<>>
    /\ wouldSend = <<>>
    /\ lastResp = AbsentInt
    /\ reportedSum = 0
    /\ withinBatch = TRUE
    /\ examples = 0
    /\ slept = 0
    /\ summary = FALSE
    /\ \/ u_op = "strip" /\ u_in \in StripInputs
       \/ u_op = "put" /\ u_in \in PutInputs
       \/ u_op = "email" /\ u_in \in EmailInputs
       \/ /\ u_op = "normalize"
          /\ \E b \in BusinessFields, a \in RawAuthorships, e \in RawEmails,
                t \in RawEventTs, x \in RawExtras :
                \E r2 \in Variants(RawRecord(b, a, e, t, x)),
                   t2 \in ClockReadings :
                    u_in = [raws |-> <<RawRecord(b, a, e, t, x), r2>>,
                            now |-> <<1, t2, FlushReading>>]
    /\ u_out = <<>>

run == <<cfg, batch_size, batch_sleep, max_pages, dry_run, chain,
         effective, fetcher, batch, counters, outputs, summary>>

\* _strip_run_alias(argv)
CallStripRunAlias ==
    /\ pc = "call"
    /\ u_op = "strip"
    /\ u_out' = StripRunAlias(u_in)
    /\ pc' = "returned"
    /\ UNCHANGED <<err, run, next_uuid, u_op, u_in>>

\* sink.put_records(records_json)
CallPutRecords ==
    /\ pc = "call"
    /\ u_op = "put"
    /\ u_out' = put_records(u_in.stream_name, u_in.records_json, u_in.transport)
    /\ pc' = IF u_in.transport.raises THEN "raised" ELSE "returned"
    /\ UNCHANGED <<err, run, next_uuid, u_op, u_in>>

\* a = synthetic_email(...)
CallSyntheticEmail ==
    /\ pc = "call"
    /\ u_op = "email"
    /\ u_out' = <<synthetic_email(u_in.first.name, u_in.first.domain)>>
    /\ pc' = "again"
    /\ UNCHANGED <<err, run, next_uuid, u_op, u_in>>

\* b = synthetic_email(...)
CallSyntheticEmailAgain ==
    /\ pc = "again"
    /\ u_op = "email"
    /\ u_out' = Append(u_out,
                       synthetic_email(u_in.second.name, u_in.second.domain))
    /\ pc' = "returned"
    /\ UNCHANGED <<err, run, next_uuid, u_op, u_in>>

\* the loop body of main on the k-th of the two raw records
NormalizeRaw(k) ==
    /\ u_op = "normalize"
    /\ IF raises_validation(u_in.raws[k])
       THEN /\ pc' = "raised"
            /\ err' = "validation"
            /\ UNCHANGED <<next_uuid, u_out>>
       ELSE /\ pc' = IF k = 1 THEN "again" ELSE "returned"
            /\ u_out' = Append(u_out,
                               normalize(u_in.raws[k], u_in.now[k], next_uuid))
            /\ next_uuid' = next_uuid + 1
            /\ UNCHANGED err
    /\ UNCHANGED <<run, u_op, u_in>>

CallNormalize == pc = "call" /\ NormalizeRaw(1)

CallNormalizeAgain == pc = "again" /\ NormalizeRaw(2)

\* flush(batch, sink, dry_run=False, ...) on the two envelopes
CallFlush ==
    /\ pc = "returned"
    /\ u_op = "normalize"
    /\ LET records == [i \in 1..Len(u_out) |-> model_dump_json(u_out[i])]
       IN  /\ sinkCalls' = Append(sinkCalls, records)
           /\ total_sent' = SentAfter(total_sent, records)
    /\ total_failed' = FailedAfter(total_failed, FakeSinkResponse)
    /\ lastResp' = FakeSinkResponse
    /\ reportedSum' = reportedSum + Reported(FakeSinkResponse)
    /\ withinBatch' = (withinBatch /\ Reported(FakeSinkResponse) <= Len(u_out))
    /\ examples' = examples + ExamplesPrinted(FakeSinkResponse, Len(u_out))
    /\ pc' = "flushed"
    /\ UNCHANGED <<err, cfg, batch_size, batch_sleep, max_pages, dry_run,
                   chain, effective, fetcher, batch, wouldSend, summary,
                   next_uuid, unit>>

UnitNext ==
    \/ CallNormalize
    \/ CallNormalizeAgain
    \/ CallFlush
    \/ CallStripRunAlias
    \/ CallPutRecords
    \/ CallSyntheticEmail
    \/ CallSyntheticEmailAgain

UnitSpec == UnitInit /\ [][UnitNext]_vars

\* C20: _strip_run_alias removes the second token, and only it, exactly
\* when it is "run"; otherwise the list is left as it was.
C20_StripRunAlias ==
    (u_op = "strip" /\ pc = "returned") =>
        IF Len(u_in) >= 2 /\ u_in[2] = "run"
        THEN /\ Len(u_out) = Len(u_in) - 1
             /\ u_out[1] = u_in[1]
             /\ \A i \in 2..Len(u_out) : u_out[i] = u_in[i + 1]
        ELSE u_out = u_in

\* the legacy form, with another "run" further on that has to stay
C20_Witness ==
    /\ u_op = "strip"
    /\ pc = "returned"
    /\ u_in = <<"-m", "run", "run">>
    /\ u_out = <<"-m", "run">>

(* ------------------------ the sink ------------------------------------- *)
PutDone == u_op = "put" /\ pc \in {"returned", "raised"}

Occurrences(text, c) == Cardinality({i \in 1..Len(text) : text[i] = c})

RECURSIVE SpacesIn(_)
\* the spaces inside the values of a record
SpacesIn(r) ==
    IF r = <<>> THEN 0 ELSE Occurrences(Head(r)[2], SP) + SpacesIn(Tail(r))

\* C13: a list of more than 500 records is rejected: put_records raises
\* and makes no put_record_batch call.
C13_RejectsOverCeiling ==
    (PutDone /\ Len(u_in.records_json) > MaxBatchRecords) =>
        /\ u_out.calls = <<>>
        /\ u_out.raised

\* C14: put_records makes exactly one put_record_batch call, to the
\* configured stream, with one entry per record in the order given, each
\* the record's compact JSON and then one newline; what the call returns
\* is returned as it is.
C14_OneCallOneLinePerRecord ==
    PutDone =>
        /\ Len(u_out.calls) = 1
        /\ u_out.calls[1].DeliveryStreamName = u_in.stream_name
        /\ Len(u_out.calls[1].Records) = Len(u_in.records_json)
        /\ \A i \in 1..Len(u_in.records_json) :
               LET r    == u_in.records_json[i]
                   data == u_out.calls[1].Records[i].Data.bytes
               IN  /\ data = dumps(r, <<",">>, <<":">>) \o <<LF>>
                   /\ Last(data) = LF
                   /\ Occurrences(data, LF) = 1
                   /\ Occurrences(data, SP) = SpacesIn(r)
        /\ u_out.raised = u_in.transport.raises
        /\ pc = "returned" => u_out.resp = u_in.transport.resp

\* two different records, the second with a space and a newline in its
\* values, and a response that reports a failure
C14_Witness ==
    /\ u_op = "put"
    /\ pc = "returned"
    /\ u_in.stream_name = "s"
    /\ u_in.records_json =
           << <<<<"a", <<"x">>>>>>,
              <<<<"id", <<"x", SP, "y">>>>, <<"_LOAD_ID", <<"u", LF>>>>>> >>
    /\ u_in.transport.resp = Num(1)
    /\ Len(u_out.calls) = 1

(* ------------------------ synthetic_email ------------------------------ *)
\* the name a call seeds with, a missing name being the name "unknown"
NameOrUnknown(a) == IF a.name = None THEN "unknown" ELSE a.name

DomainOrDefault(a) == IF a.domain = Absent THEN "example.com" ELSE a.domain

\* C17: two calls of synthetic_email with the same name and domain (a
\* missing name counting as "unknown", a missing domain as example.com)
\* return the same address; an address starts with "user_" and ends with
\* "@" and the domain.
C17_SyntheticEmail ==
    (u_op = "email" /\ pc = "returned") =>
        /\ (/\ NameOrUnknown(u_in.first) = NameOrUnknown(u_in.second)
            /\ DomainOrDefault(u_in.first) = DomainOrDefault(u_in.second))
               => u_out[1] = u_out[2]
        /\ \A i \in 1..2 :
               LET a == IF i = 1 THEN u_in.first ELSE u_in.second
               IN  /\ Head(u_out[i]) = "user_"
                   /\ SubSeq(u_out[i], Len(u_out[i]) - 1, Len(u_out[i]))
                          = <<"@", DomainOrDefault(a)>>

\* a call without a name and without a domain, and a call that spells
\* both defaults out
C17_Witness ==
    /\ u_op = "email"
    /\ pc = "returned"
    /\ u_in.first = [name |-> None, domain |-> Absent]
    /\ u_in.second = [name |-> "unknown", domain |-> "example.com"]
    /\ u_out[1] = u_out[2]

(* ------------------------ normalization -------------------------------- *)
\* the envelopes built so far by the two iterations
Normalized == IF u_op = "normalize" THEN u_out ELSE <<>>

\* the value stored under a key of a dumped envelope, as a set
ValuesAt(d, key) == {d[i][2] : i \in {j \in 1..Len(d) : d[j][1] = key}}

\* C15: every dumped envelope carries _LOAD_ID exactly once, with a
\* non-empty string value, and two envelopes, even of the same raw record
\* at the same clock reading, carry different values.
C15_LoadIdFresh ==
    /\ \A k \in 1..Len(Normalized) :
           LET ids == ValuesAt(model_dump_json(Normalized[k]), "_LOAD_ID")
           IN  /\ Cardinality(ids) = 1
               /\ \A x \in ids : x.kind = "text" /\ x.v # <<>>
    /\ Len(Normalized) = 2 =>
           ValuesAt(model_dump_json(Normalized[1]), "_LOAD_ID")
               # ValuesAt(model_dump_json(Normalized[2]), "_LOAD_ID")

\* the same raw record twice, at one clock reading
C15_Witness ==
    /\ u_op = "normalize"
    /\ pc = "returned"
    /\ u_in.raws[1] = u_in.raws[2]
    /\ u_in.now[1] = u_in.now[2]
    /\ u_out[1].load_id # u_out[2].load_id
    /\ \A f \in DOMAIN u_out[1] \ {"load_id"} : u_out[1][f] = u_out[2][f]

\* the first authorship entry of a raw record names its author
FirstAuthorNamed(raw) ==
    /\ raw.authorships.kind = "list"
    /\ raw.authorships.v # <<>>
    /\ raw.authorships.v[1].author.kind = "dict"
    /\ raw.authorships.v[1].author.v.display_name.kind = "str"

FirstAuthorName(raw) == raw.authorships.v[1].author.v.display_name.v

\* C16 as stated: the email is the record's email whatever its string
\* value, else the address seeded by the first author's display name,
\* else the address seeded by "unknown"; it is never empty.
C16_AsStated ==
    \A k \in 1..Len(Normalized) :
        LET raw == u_in.raws[k]
        IN  /\ Normalized[k].email.v =
                   IF raw.email.kind = "text" THEN raw.email.v
                   ELSE IF FirstAuthorNamed(raw)
                        THEN synthetic_email(FirstAuthorName(raw), Absent)
                        ELSE synthetic_email("unknown", Absent)
            /\ Normalized[k].email.v # <<>>

\* C16: the email is the record's email when that is a non-empty string,
\* else the address seeded by the first author's display name when that
\* is a non-empty string, else the address seeded by "unknown"; it is
\* never empty.
C16_EmailRule ==
    \A k \in 1..Len(Normalized) :
        LET raw == u_in.raws[k]
        IN  /\ Normalized[k].email.v =
                   IF raw.email.kind = "text" /\ raw.email.v # <<>>
                   THEN raw.email.v
                   ELSE IF FirstAuthorNamed(raw) /\ FirstAuthorName(raw) # ""
                        THEN synthetic_email(FirstAuthorName(raw), Absent)
                        ELSE synthetic_email("unknown", Absent)
            /\ Normalized[k].email.v # <<>>

\* an empty email on a record whose first author is named
C16_Witness ==
    /\ u_op = "normalize"
    /\ pc = "returned"
    /\ u_in.raws[1].email = Text(<<>>)
    /\ FirstAuthorNamed(u_in.raws[1])
    /\ FirstAuthorName(u_in.raws[1]) = "Alice Smith"
    /\ u_out[1].email = Text(<<"user_", "99b060e16d", "@", "example.com">>)

\* the fields the claim lists as declared
ListedFields ==
    {"id", "doi", "title", "publication_year", "host_venue", "authorships",
     "email"}

AgreeOn(fields) == \A f \in fields : u_in.raws[1][f] = u_in.raws[2][f]

\* the first record became an envelope and the second was rejected
OnlySecondRejected ==
    u_op = "normalize" /\ pc = "raised" /\ Len(u_out) = 1

\* two envelopes equal in every field but load_id, the timestamps being
\* compared when the clock read the same
SameButLoadId(e1, e2) ==
    \A f \in DOMAIN e1 \ {"load_id"} :
        \/ f \in {"event_ts", "ingest_ts"} /\ u_in.now[1] # u_in.now[2]
        \/ e1[f] = e2[f]

Flushed == IF sinkCalls = <<>> THEN <<>> ELSE sinkCalls[1]

====
